---- MODULE Spec2Model ----
(***************************************************************************)
(* kanata-layer-observer: the connection supervisor loop of main and the   *)
(* message stream processor read_from_kanata (src/src/main.rs).            *)
(*                                                                         *)
(* The byte stream of one TCP connection is a sequence of tokens.  A token *)
(* is a newline byte, one JSON object, a run of UTF-8 text that is not     *)
(* JSON, or a run of bytes that is not valid UTF-8.  The peer (kanata) and *)
(* the child process of an action are the environment.                     *)
(***************************************************************************)
EXTENDS Naturals, Sequences, FiniteSets

VARIABLES
    pc,              \* where the single thread of main is
    openConns,       \* number of TcpStream values alive in the client
    wire,            \* bytes the peer has sent that read_line has not consumed
    peerClosed,      \* the peer has closed its end of the connection
    sends,           \* number of writes of the peer in this session
    msg,             \* the String msg of read_from_kanata
    expanded_script_path, \* the String expanded_script_path of read_from_kanata
    running,         \* Command::output() calls that have not returned
    lastRead,        \* outcome of the latest read_line of this session
    result,          \* value the latest read_from_kanata call returned
    log,             \* log entries emitted by the latest step of the client
    slept,           \* durations of the sleeps since the latest connect call
    prevAttempt,     \* outcome of the latest connect call
    failures,        \* consecutive failed connect calls (saturating)
    frames,          \* history: lines read_line returned in this session
    invoked,         \* history: arguments of the actions of this session
    lastOutcome      \* how the latest action of this session ended

vars == <<pc, openConns, wire, peerClosed, sends, msg, expanded_script_path,
          running, lastRead, result, log, slept, prevAttempt, failures,
          frames, invoked, lastOutcome>>

----------------------------------------------------------------------------
(* Bounds of the model *)

\* writes of the peer in one session
MaxSends == 3
\* the counter of consecutive failed connects saturates here
MaxFailures == 2

----------------------------------------------------------------------------
(* Program constants *)

ConnectTimeoutSecs == 5
LostBackoffSecs == 30
ConnectBackoffSecs == 30

\* Config.script_path, and what shellexpand::tilde makes of it
script_path == "~/layer_change.sh"
\* (fault variant: the shorthand is left as it is)
Tilde_none(p) == p
Tilde(p) == IF p = "~/layer_change.sh" THEN "/home/u/layer_change.sh" ELSE p

----------------------------------------------------------------------------
(* The wire: tokens *)

Layers == {"nav", "base"}
Bad == "bad"

Variants == {"LayerChange", "LayerNames", "CurrentLayerInfo", "ConfigFileReload",
             "CurrentLayerName", "MessagePush", "Error"}
OtherVariants == Variants \ {"LayerChange"}

NL == [kind |-> "nl", tag |-> "-", val |-> "-"]
Text == [kind |-> "text", tag |-> "-", val |-> "-"]
Bytes == [kind |-> "bytes", tag |-> "-", val |-> "-"]
\* the JSON object {tag: {...}}; val is the text of its field, or Bad when
\* the field is missing or of the wrong type
Obj(tag, val) == [kind |-> "json", tag |-> tag, val |-> val]

Bodies ==
    {Obj("LayerChange", l) : l \in Layers}
    \cup {Obj(v, "nav") : v \in OtherVariants}
    \cup {Obj("LayerChange", Bad), Obj("Unknown", "nav"), Text, Bytes}

\* bodies the peer may leave without a newline
PartialBodies == {Obj("LayerChange", "nav"), Text, Bytes}

PeerWrites ==
    {<<b, NL>> : b \in Bodies} \cup {<<NL>>} \cup {<<b>> : b \in PartialBodies}

----------------------------------------------------------------------------
(* BufRead::read_line on the connection *)

HasNL(w) == \E i \in 1..Len(w) : w[i] = NL
FirstNL(w) == CHOOSE i \in 1..Len(w) : w[i] = NL /\ \A j \in 1..(i - 1) : w[j] # NL
\* read_line consumes up to and including the first newline, or up to the
\* end of the stream when the peer has closed before sending one
LineLen(w) == IF HasNL(w) THEN FirstNL(w) ELSE Len(w)
ValidUtf8(l) == \A i \in 1..Len(l) : l[i].kind # "bytes"

\* read_line can return once a newline is buffered or the stream has ended
\* (fault variants: read_line waits for the newline past the end of
\* stream; read_line gives up on a silent connection)
LineReady_block(w, closed) == HasNL(w)
LineReady_timeout(w, closed) == TRUE
LineReady(w, closed) == HasNL(w) \/ closed

\* the value of reader.read_line(&mut msg): the bytes appended to msg, their
\* count, what is left unread, and the error if the bytes are not UTF-8
\* (fault variant: bytes without a newline are dropped at the end of stream)
read_line_strict(w) ==
    LET n == LineLen(w)
        l == SubSeq(w, 1, n)
        rest == SubSeq(w, n + 1, Len(w))
    IN  IF ~HasNL(w)
        THEN [err |-> "none", bytes_read |-> 0, data |-> <<>>, rest |-> <<>>]
        ELSE IF ValidUtf8(l)
        THEN [err |-> "none", bytes_read |-> n, data |-> l, rest |-> rest]
        ELSE [err |-> "InvalidData", bytes_read |-> 0, data |-> <<>>, rest |-> rest]
read_line(w) ==
    LET n == LineLen(w)
        l == SubSeq(w, 1, n)
        rest == SubSeq(w, n + 1, Len(w))
    IN  IF ValidUtf8(l)
        THEN [err |-> "none", bytes_read |-> n, data |-> l, rest |-> rest]
        ELSE [err |-> "InvalidData", bytes_read |-> 0, data |-> <<>>, rest |-> rest]

\* msg.clear()
\* (fault variant: msg keeps the earlier lines)
Clear_keep(m) == m
Clear(m) == <<>>

----------------------------------------------------------------------------
(* serde_json::from_str::<ServerMessage> *)

DecodeErr == [ok |-> FALSE, variant |-> "-", field |-> "-"]

\* leading and trailing whitespace is skipped, one value is parsed, and
\* anything after it except whitespace is an error
Decode(m) ==
    LET v == SelectSeq(m, LAMBDA t : t.kind # "nl")
    IN  IF Len(v) = 0 THEN DecodeErr
        ELSE IF v[1].kind # "json" THEN DecodeErr
        ELSE IF Len(v) > 1 THEN DecodeErr
        ELSE IF v[1].tag \notin Variants THEN DecodeErr
        ELSE IF v[1].val = Bad THEN DecodeErr
        ELSE [ok |-> TRUE, variant |-> v[1].tag, field |-> v[1].val]

\* the pattern  if let Ok(ServerMessage::LayerChange { new }) = ...
\* (fault variant: any variant with a field named new matches)
IsLayerChange_anyNew(d) == d.ok /\ d.variant \in {"LayerChange", "ConfigFileReload"}
IsLayerChange(d) == d.ok /\ d.variant = "LayerChange"

----------------------------------------------------------------------------
(* Log entries *)

Entry(level, text) == [level |-> level, text |-> text]
LogAttempting == Entry("info", "attempting to connect to kanata")
LogConnected == Entry("info", "successfully connected to kanata")
LogConnectionLost == Entry("error", "connection lost")
LogConnectFailed == Entry("error", "failed to connect to kanata")
LogReaderStarting == Entry("debug", "reader starting")
LogMessageReceived == Entry("debug", "message received")
LogLayerChanged == Entry("debug", "Layer changed to")
LogScriptOk == Entry("debug", "Script executed successfully")
LogScriptFailed == Entry("error", "Script failed")
LogExecFailed == Entry("error", "Failed to execute script")

----------------------------------------------------------------------------
(* Decisions of main and read_from_kanata *)

Min(a, b) == IF a < b THEN a ELSE b

\* read_from_kanata when bytes_read == 0
\* (fault variant: a clean close returns Ok)
ZeroBytesReturn_ok == "Ok"
ZeroBytesReturn == "ConnectionReset"

\* main, after read_from_kanata has returned res
\* (fault variants: reconnect at once; leave the loop)
MainAfterSession_nosleep(res) ==
    IF res = "Ok" THEN [pc |-> "attempt", log |-> <<>>]
    ELSE [pc |-> "attempt", log |-> <<LogConnectionLost>>]
MainAfterSession_exit(res) ==
    IF res = "Ok" THEN [pc |-> "attempt", log |-> <<>>]
    ELSE [pc |-> "exited", log |-> <<LogConnectionLost>>]
MainAfterSession(res) ==
    IF res = "Ok" THEN [pc |-> "attempt", log |-> <<>>]
    ELSE [pc |-> "sleep_lost", log |-> <<LogConnectionLost>>]

\* main, after connect_timeout has failed
\* (fault variants: retry at once; enter the read loop without a
\* connection; give up after a failed retry)
MainAfterConnectErr_session == [pc |-> "read", log |-> <<LogConnectFailed>>]
MainAfterConnectErr_giveup ==
    [pc |-> IF failures >= 1 THEN "exited" ELSE "sleep_connect",
     log |-> <<LogConnectFailed>>]
MainAfterConnectErr_nosleep == [pc |-> "attempt", log |-> <<LogConnectFailed>>]
MainAfterConnectErr == [pc |-> "sleep_connect", log |-> <<LogConnectFailed>>]

\* Command::output() blocks the thread until the child has exited
\* (fault variant: the child is spawned and not waited for)
PcDuringOutput_spawn == "read"
PcDuringOutput == "action"

\* the match on the value of Command::output(); ret = "none" is falling
\* through to the next iteration of the loop
\* (fault variant: a launch failure is returned with ?)
AfterAction_propagate(outcome) ==
    IF outcome = "success" THEN [ret |-> "none", log |-> <<LogScriptOk>>]
    ELSE IF outcome = "nonzero" THEN [ret |-> "none", log |-> <<LogScriptFailed>>]
    ELSE [ret |-> "IoError", log |-> <<>>]
AfterAction(outcome) ==
    IF outcome = "success" THEN [ret |-> "none", log |-> <<LogScriptOk>>]
    ELSE IF outcome = "nonzero" THEN [ret |-> "none", log |-> <<LogScriptFailed>>]
    ELSE [ret |-> "none", log |-> <<LogExecFailed>>]

ActionOutcomes == {"success", "nonzero", "launch_fail"}

----------------------------------------------------------------------------
(* The state machine *)

Init ==
    /\ pc = "attempt"
    /\ openConns = 0
    /\ wire = <<>>
    /\ peerClosed = FALSE
    /\ sends = 0
    /\ msg = <<>>
    /\ expanded_script_path = "-"
    /\ running = 0
    /\ lastRead = "none"
    /\ result = "none"
    /\ log = <<>>
    /\ slept = <<>>
    /\ prevAttempt = "none"
    /\ failures = 0
    /\ frames = <<>>
    /\ invoked = <<>>
    /\ lastOutcome = "none"

\* read_from_kanata returns res to main: reader and msg are dropped, which
\* closes the connection and discards what was unread, and main takes its
\* branch
\* (fault variant: the connection is kept open after the return)
SessionReturn_leak(res, entries) ==
    LET m == MainAfterSession(res)
    IN  /\ result' = res
        /\ openConns' = openConns
        /\ msg' = <<>>
        /\ wire' = <<>>
        /\ peerClosed' = FALSE
        /\ sends' = 0
        /\ pc' = m.pc
        /\ log' = entries \o m.log
SessionReturn(res, entries) ==
    LET m == MainAfterSession(res)
    IN  /\ result' = res
        /\ openConns' = openConns - 1
        /\ msg' = <<>>
        /\ wire' = <<>>
        /\ peerClosed' = FALSE
        /\ sends' = 0
        /\ pc' = m.pc
        /\ log' = entries \o m.log

\* main: TcpStream::connect_timeout succeeds; read_from_kanata starts
ConnectOk ==
    /\ pc = "attempt"
    /\ openConns' = openConns + 1
    /\ pc' = "read"
    /\ log' = <<LogAttempting, LogConnected, LogReaderStarting>>
    /\ msg' = <<>>
    /\ expanded_script_path' = Tilde(script_path)
    /\ wire' = <<>>
    /\ peerClosed' = FALSE
    /\ sends' = 0
    /\ lastRead' = "none"
    /\ result' = "none"
    /\ slept' = <<>>
    /\ prevAttempt' = "connected"
    /\ failures' = 0
    /\ frames' = <<>>
    /\ invoked' = <<>>
    /\ lastOutcome' = "none"
    /\ UNCHANGED running

\* main: TcpStream::connect_timeout fails (refused, or no answer in 5 s)
ConnectFail ==
    /\ pc = "attempt"
    /\ pc' = MainAfterConnectErr.pc
    /\ log' = <<LogAttempting>> \o MainAfterConnectErr.log
    /\ slept' = <<>>
    /\ prevAttempt' = "failed"
    /\ failures' = Min(failures + 1, MaxFailures)
    /\ lastRead' = "none"
    /\ result' = "none"
    /\ frames' = <<>>
    /\ invoked' = <<>>
    /\ lastOutcome' = "none"
    /\ UNCHANGED <<openConns, wire, peerClosed, sends, msg, expanded_script_path,
                   running>>

\* main: thread::sleep after a failed connect
SleepConnect ==
    /\ pc = "sleep_connect"
    /\ slept' = Append(slept, ConnectBackoffSecs)
    /\ pc' = "attempt"
    /\ log' = <<>>
    /\ UNCHANGED <<openConns, wire, peerClosed, sends, msg, expanded_script_path,
                   running, lastRead, result, prevAttempt, failures, frames,
                   invoked, lastOutcome>>

\* main: thread::sleep after read_from_kanata returned an error
SleepLost ==
    /\ pc = "sleep_lost"
    /\ slept' = Append(slept, LostBackoffSecs)
    /\ pc' = "attempt"
    /\ log' = <<>>
    /\ UNCHANGED <<openConns, wire, peerClosed, sends, msg, expanded_script_path,
                   running, lastRead, result, prevAttempt, failures, frames,
                   invoked, lastOutcome>>

\* read_from_kanata: one iteration of the loop, from msg.clear() to the
\* call of Command::output() or the end of the loop body
LoopIteration ==
    /\ pc = "read"
    /\ LineReady(wire, peerClosed)
    /\ LET r == read_line(wire)
           m0 == Clear(msg)
       IN  IF r.err # "none"
           THEN /\ lastRead' = "err"
                /\ SessionReturn(r.err, <<>>)
                /\ UNCHANGED <<frames, invoked, running>>
           ELSE IF r.bytes_read = 0
           THEN /\ lastRead' = "eof"
                /\ SessionReturn(ZeroBytesReturn, <<>>)
                /\ UNCHANGED <<frames, invoked, running>>
           ELSE LET m1 == m0 \o r.data
                    d == Decode(m1)
                IN  /\ lastRead' = "line"
                    /\ wire' = r.rest
                    /\ msg' = m1
                    /\ frames' = Append(frames, r.data)
                    /\ IF IsLayerChange(d)
                       THEN /\ invoked' = Append(invoked,
                                   [path |-> expanded_script_path, arg |-> d.field])
                            /\ running' = running + 1
                            /\ pc' = PcDuringOutput
                            /\ log' = <<LogMessageReceived, LogLayerChanged>>
                       ELSE /\ pc' = "read"
                            /\ log' = <<LogMessageReceived>>
                            /\ UNCHANGED <<invoked, running>>
                    /\ UNCHANGED <<openConns, result, peerClosed, sends>>
    /\ UNCHANGED <<expanded_script_path, slept, prevAttempt, failures, lastOutcome>>

\* read_from_kanata: read_line fails with an error of the socket
LoopIterationIoError ==
    /\ pc = "read"
    /\ lastRead' = "err"
    /\ SessionReturn("IoError", <<>>)
    /\ UNCHANGED <<expanded_script_path, running, slept, prevAttempt, failures,
                   frames, invoked, lastOutcome>>

\* read_from_kanata: Command::output() returns
ActionDone ==
    /\ pc = "action"
    /\ running > 0
    /\ \E outcome \in ActionOutcomes :
          LET a == AfterAction(outcome)
          IN  /\ running' = running - 1
              /\ lastOutcome' = outcome
              /\ IF a.ret = "none"
                 THEN /\ pc' = "read"
                      /\ log' = a.log
                      /\ UNCHANGED <<openConns, result, msg, wire, peerClosed,
                                     sends>>
                 ELSE SessionReturn(a.ret, a.log)
    /\ UNCHANGED <<expanded_script_path, lastRead, slept, prevAttempt, failures,
                   frames, invoked>>

\* kanata writes to the connection
PeerSend ==
    /\ openConns > 0
    /\ ~peerClosed
    /\ sends < MaxSends
    /\ \E w \in PeerWrites : wire' = wire \o w
    /\ sends' = sends + 1
    /\ UNCHANGED <<pc, openConns, peerClosed, msg, expanded_script_path, running,
                   lastRead, result, log, slept, prevAttempt, failures, frames,
                   invoked, lastOutcome>>

\* kanata closes the connection
PeerClose ==
    /\ openConns > 0
    /\ ~peerClosed
    /\ peerClosed' = TRUE
    /\ UNCHANGED <<pc, openConns, wire, sends, msg, expanded_script_path, running,
                   lastRead, result, log, slept, prevAttempt, failures, frames,
                   invoked, lastOutcome>>

ClientStep ==
    \/ ConnectOk
    \/ ConnectFail
    \/ SleepConnect
    \/ SleepLost
    \/ LoopIteration
    \/ LoopIterationIoError
    \/ ActionDone

Next ==
    \/ ConnectOk
    \/ ConnectFail
    \/ SleepConnect
    \/ SleepLost
    \/ LoopIteration
    \/ LoopIterationIoError
    \/ ActionDone
    \/ PeerSend
    \/ PeerClose

Spec == Init /\ [][Next]_vars

----------------------------------------------------------------------------
(* Vocabulary of the properties, stated on the bytes of a frame *)

\* the frame is one LayerChange object with a text field, with or without
\* its newline
IsLayerChangeFrame(f) ==
    \E l \in Layers : f = <<Obj("LayerChange", l), NL>> \/ f = <<Obj("LayerChange", l)>>
NewOf(f) == f[1].val

\* the frame is one well-formed object of another variant and its newline
IsOtherFrame(f) == \E v \in OtherVariants : f = <<Obj(v, "nav"), NL>>

\* a newline-terminated frame that is no ServerMessage
IsUndecodableFrame(f) ==
    /\ Len(f) > 0
    /\ f[Len(f)] = NL
    /\ ~IsLayerChangeFrame(f)
    /\ ~IsOtherFrame(f)

\* the bytes the next read_line of the session will take
HeadLine == SubSeq(wire, 1, LineLen(wire))

\* the new values of the LayerChange frames of fs, in order
News(fs) ==
    LET lc == SelectSeq(fs, IsLayerChangeFrame)
    IN  [i \in 1..Len(lc) |-> NewOf(lc[i])]
Args(inv) == [i \in 1..Len(inv) |-> inv[i].arg]

InSession(p) == p \in {"read", "action"}

\* in this step a read_line call of the session returned
ReadReturned == pc = "read" /\ (frames' # frames \/ pc' # "read")
\* ... and it returned what the stream held, not an error of the socket
StreamRead == ReadReturned /\ result' # "IoError"

----------------------------------------------------------------------------
(* C1 *)

C2_UndecodableFrameIgnored ==
    [][(StreamRead /\ HasNL(wire) /\ IsUndecodableFrame(HeadLine))
         => (/\ pc' = "read"
             /\ invoked' = invoked
             /\ running' = running
             /\ result' = "none"
             /\ openConns' = openConns)]_vars

(* C3 *)

\* C3: reading a well-formed frame of a variant other than LayerChange
\* invokes no action and leaves the session connected at its next read.
C3_OtherVariantsIgnored ==
    [][(StreamRead /\ HasNL(wire) /\ IsOtherFrame(HeadLine))
         => (/\ pc' = "read"
             /\ frames' = Append(frames, HeadLine)
             /\ invoked' = invoked
             /\ running' = running
             /\ result' = "none"
             /\ openConns' = 1)]_vars

C3_Witness ==
    /\ pc = "read"
    /\ openConns = 1
    /\ Len(frames) = 3
    /\ \A i \in 1..3 : IsOtherFrame(frames[i])
    /\ frames[3] = <<Obj("ConfigFileReload", "nav"), NL>>
    /\ frames[1] # frames[2]
    /\ invoked = <<>>

(* C4 *)

FailedOutcomes == {"nonzero", "launch_fail"}

\* C4: when an action ends in a launch failure or a non-zero exit status,
\* read_from_kanata does not return and the connection stays open with the
\* loop at its next read; and a LayerChange frame read after a failed action
\* has its action invoked.
C4_ActionFailureAbsorbed ==
    [][/\ (pc = "action" /\ pc' # "action" /\ lastOutcome' \in FailedOutcomes)
           => (/\ pc' = "read"
               /\ result' = "none"
               /\ openConns' = 1
               /\ openConns = 1)
       /\ (StreamRead /\ lastOutcome \in FailedOutcomes
             /\ LineReady(wire, peerClosed) /\ IsLayerChangeFrame(HeadLine))
           => (/\ invoked' = Append(invoked,
                     [path |-> expanded_script_path, arg |-> NewOf(HeadLine)])
               /\ pc' = "action")]_vars

C4_Witness ==
    /\ pc = "action"
    /\ lastOutcome = "launch_fail"
    /\ Args(invoked) = <<"nav", "base">>
    /\ openConns = 1

----------------------------------------------------------------------------
(* The single thread keeps running: a sleep ends after its duration, and  *)
(* connect_timeout returns within its timeout.                             *)

FairSpec ==
    /\ Spec
    /\ WF_vars(SleepLost)
    /\ WF_vars(SleepConnect)
    /\ WF_vars(ConnectOk \/ ConnectFail)

ErrorReturns == {"ConnectionReset", "InvalidData", "IoError"}

(* C5 *)

\* C5: a read of zero bytes makes read_from_kanata return an error to main;
\* main then sleeps 30 seconds, once, before its next connection attempt,
\* and it does make that attempt.
C5_CleanCloseThenBackoffThenRetry ==
    /\ [][(StreamRead /\ peerClosed /\ wire = <<>>)
            => (/\ lastRead' = "eof"
                /\ result' = "ConnectionReset"
                /\ pc' = "sleep_lost"
                /\ slept' = <<>>)]_vars
    /\ [](lastRead = "eof" => (pc = "sleep_lost" /\ slept = <<>>)
                                \/ (pc = "attempt" /\ slept = <<30>>))
    /\ (lastRead = "eof" /\ pc = "sleep_lost") ~> (pc = "attempt" /\ slept = <<30>>)
    /\ (lastRead = "eof") ~> (lastRead = "none")

C5_Witness ==
    /\ lastRead = "eof"
    /\ result = "ConnectionReset"
    /\ pc = "attempt"
    /\ slept = <<30>>

(* C6 *)

\* C6: every connection attempt but the first is made after exactly one
\* sleep of 30 seconds since the attempt before it, whether that attempt
\* failed or its session ended, and however many attempts have failed in a
\* row; no sleep happens anywhere else.
C6_OneFixedBackoffBetweenAttempts ==
    /\ pc = "attempt" => slept = (IF prevAttempt = "none" THEN <<>> ELSE <<30>>)
    /\ pc # "attempt" => slept = <<>>
    /\ pc = "sleep_connect" => prevAttempt = "failed"
    /\ pc = "sleep_lost" => prevAttempt = "connected"

C6_Witness ==
    /\ pc = "attempt"
    /\ prevAttempt = "failed"
    /\ failures >= 2
    /\ slept = <<30>>

(* C7 *)

CorePcs == {"attempt", "read", "action", "sleep_connect", "sleep_lost"}

\* C7: the loop of main is never left: the thread is always attempting to
\* connect, reading, running an action or sleeping, and in each of these
\* some step of the client is enabled or the client is blocked in read_line
\* on an open connection.
C7_NoExitState ==
    /\ pc \in CorePcs
    /\ (pc = "read" /\ openConns = 1) \/ ENABLED ClientStep

C7_Witness ==
    /\ pc = "attempt"
    /\ result = "ConnectionReset"
    /\ lastOutcome = "launch_fail"
    /\ \E i \in 1..Len(frames) : IsUndecodableFrame(frames[i])

(* C8 *)

IsPrefix(a, b) == Len(a) <= Len(b) /\ SubSeq(b, 1, Len(a)) = a

\* C9: at most one action invocation is in progress at any time, the thread
\* is then inside Command::output(), and while it is there no frame is
\* read, decoded or dispatched, however many frames are waiting.
C9_ActionRunsInlineAndAlone ==
    [][/\ running' <= 1
       /\ (running' = 1) = (pc' = "action")
       /\ running > 0
           => (/\ frames' = frames
               /\ invoked' = invoked
               /\ msg' = msg
               /\ lastRead' = lastRead
               /\ IsPrefix(wire, wire'))]_vars

C9_Witness ==
    /\ pc = "action"
    /\ running = 1
    /\ Len(invoked) = 1
    /\ wire = << Obj("LayerChange", "base"), NL, Obj("LayerChange", "nav"), NL >>

(* C10 *)

\* bytes without a newline that are no LayerChange object
IsGarbageTail(w) == w # <<>> /\ ~HasNL(w) /\ ~IsLayerChangeFrame(w)

\* C10: when the unread bytes are garbage without a newline and the peer
\* has closed, read_line is not blocked; the read of the garbage invokes no
\* action and either ends the session with an error (InvalidData, when the
\* garbage is not UTF-8) or leaves nothing unread, and the read after it
\* ends the session with ConnectionReset: two reads at most, and main
\* goes to its connection-lost branch.
C10_GarbageThenCloseTerminates ==
    /\ []((pc = "read" /\ peerClosed /\ (IsGarbageTail(wire) \/ wire = <<>>))
            => ENABLED LoopIteration)
    /\ [][(StreamRead /\ peerClosed /\ IsGarbageTail(wire))
            => (/\ invoked' = invoked
                /\ running' = running
                /\ \/ (pc' = "sleep_lost" /\ result' = "InvalidData")
                   \/ (pc' = "read" /\ wire' = <<>> /\ peerClosed'
                         /\ result' = "none"
                         /\ frames' = Append(frames, wire)))]_vars
    /\ [][(StreamRead /\ peerClosed /\ wire = <<>>)
            => (/\ invoked' = invoked
                /\ pc' = "sleep_lost"
                /\ result' = "ConnectionReset")]_vars

C10_Witness ==
    /\ pc = "sleep_lost"
    /\ result = "ConnectionReset"
    /\ lastRead = "eof"
    /\ frames = << <<Text>> >>
    /\ invoked = <<>>

(* C11 *)

\* C11: an action is invoked only from the read loop of a session whose
\* connect succeeded, on an open connection; after a failed connect no
\* invocation exists or is in progress, and the thread is outside the
\* session, however many connects have failed in a row.
C11_ActionsOnlyWhileConnected ==
    /\ [][(invoked' # invoked /\ invoked' # <<>>)
            => (pc = "read" /\ openConns = 1 /\ prevAttempt = "connected"
                  /\ prevAttempt' = "connected")]_vars
    /\ [](prevAttempt = "failed"
            => (invoked = <<>> /\ running = 0 /\ ~InSession(pc) /\ openConns = 0))
    /\ [](running > 0 => (openConns = 1 /\ prevAttempt = "connected"))

C11_Witness ==
    /\ prevAttempt = "failed"
    /\ failures >= 2
    /\ pc = "attempt"
    /\ slept = <<30>>
    /\ invoked = <<>>

(* C12 *)

\* C12: the client holds at most one connection, and holds one exactly
\* while the thread is in read_from_kanata; once read_from_kanata has
\* returned the connection is closed, so none is open during the backoff
\* sleep or at the next connection attempt.
C12_OneConnectionClosedOnReturn ==
    /\ openConns <= 1
    /\ (openConns = 1) = InSession(pc)
    /\ pc \in {"attempt", "sleep_connect", "sleep_lost"} => openConns = 0

C12_Witness ==
    /\ pc = "sleep_lost"
    /\ openConns = 0
    /\ prevAttempt = "connected"
    /\ Len(frames) >= 1
    /\ slept = <<>>

(* C13 *)

\* C13: with the thread running, if from some point on no connect call
\* fails, the client is in a session again and again after that point,
\* whatever connects and sessions failed before it.
C13_ConnectsOnceDaemonAccepts ==
    <>[][~ConnectFail]_vars => []<>InSession(pc)

C13_Witness ==
    /\ pc = "attempt"
    /\ prevAttempt = "failed"
    /\ failures >= 2
    /\ ENABLED ConnectOk

(* C14 *)

\* the thread is in read_line on an open connection that holds no complete
\* line and that the peer has not closed
BlockedInRead == pc = "read" /\ ~HasNL(wire) /\ ~peerClosed

\* C14: while the client is blocked in read_line, it takes no step of its
\* own except the return of read_line with an error of the socket: it
\* makes no connection attempt, starts no sleep and invokes no action, and
\* what changes is only what the peer sends or closes.
C14_SilentConnectionStaysBlocked ==
    /\ [](BlockedInRead => (openConns = 1 /\ running = 0 /\ ~ENABLED LoopIteration))
    /\ [][BlockedInRead
            => \/ /\ pc' = "read"
                  /\ openConns' = 1
                  /\ UNCHANGED <<msg, expanded_script_path, running, lastRead,
                                 result, log, slept, prevAttempt, failures,
                                 frames, invoked, lastOutcome>>
                  /\ \/ (peerClosed' /\ wire' = wire)
                     \/ (~peerClosed' /\ IsPrefix(wire, wire') /\ wire' # wire)
               \/ /\ pc' = "sleep_lost"
                  /\ lastRead' = "err"
                  /\ result' = "IoError"
                  /\ invoked' = invoked]_vars

C14_Witness ==
    /\ BlockedInRead
    /\ wire = <<Text>>
    /\ Len(frames) = 2
    /\ sends = 3

(* C15 *)

Count(l, e) == Len(SelectSeq(l, LAMBDA x : x = e))
Errors(l) == Len(SelectSeq(l, LAMBDA x : x.level = "error"))

\* C15: the log follows the control flow: each connect call is preceded by
\* one info entry, a successful connect is followed by one success entry
\* and no error entry, a failed connect and a session end emit exactly one
\* error entry each, an action that fails emits exactly one error entry
\* and one that succeeds none, and the read of an undecodable or ignored
\* frame emits no error entry.
C15_LogFollowsControlFlow ==
    [][/\ (pc = "attempt" /\ pc' # "attempt")
           => (log'[1] = LogAttempting /\ Count(log', LogAttempting) = 1)
       /\ (pc = "attempt" /\ pc' = "read")
           => (log'[2] = LogConnected /\ Count(log', LogConnected) = 1
                 /\ Errors(log') = 0)
       /\ (pc = "attempt" /\ pc' = "sleep_connect")
           => (Errors(log') = 1 /\ Count(log', LogConnected) = 0)
       /\ (InSession(pc) /\ ~InSession(pc')) => Errors(log') = 1
       /\ (pc = "action" /\ pc' # "action")
           => Errors(log') = (IF lastOutcome' \in FailedOutcomes THEN 1 ELSE 0)
       /\ (StreamRead /\ HasNL(wire)
             /\ (IsUndecodableFrame(HeadLine) \/ IsOtherFrame(HeadLine)))
           => Errors(log') = 0
       /\ (pc \in {"sleep_connect", "sleep_lost"} /\ pc' = "attempt")
           => Errors(log') = 0]_vars

(* C16 *)

\* C16: msg is emptied before every read, so after each read that returned
\* bytes msg holds exactly the bytes of that one line, whatever lines were
\* read before it, and whether an action is invoked depends on those bytes
\* alone.
C16_BufferHoldsOneFrame ==
    /\ []((InSession(pc) /\ frames # <<>>) => msg = frames[Len(frames)])
    /\ []((InSession(pc) /\ frames = <<>>) => msg = <<>>)
    /\ [][(pc = "read" /\ frames' # frames /\ frames' # <<>>)
            => (/\ msg' = HeadLine
                /\ frames' = Append(frames, HeadLine)
                /\ IF IsLayerChangeFrame(HeadLine)
                   THEN Args(invoked') = Append(Args(invoked), NewOf(HeadLine))
                   ELSE invoked' = invoked)]_vars

C16_Witness ==
    /\ pc = "action"
    /\ Len(frames) = 3
    /\ frames[1] = <<Text, NL>>
    /\ frames[2] = <<Obj("LayerChange", Bad), NL>>
    /\ frames[3] = <<Obj("LayerChange", "base"), NL>>
    /\ msg = frames[3]
    /\ Args(invoked) = <<"base">>

(* C17 *)

ResolvedPath == "/home/u/layer_change.sh"

\* C17: the script path is resolved when the session starts, before any
\* read, and no step of the session changes it: every invocation of the
\* session runs the same resolved path.
C17_ScriptPathFixedPerSession ==
    /\ [](InSession(pc) => expanded_script_path = ResolvedPath)
    /\ [](\A i \in 1..Len(invoked) : invoked[i].path = ResolvedPath)
    /\ [][(InSession(pc) /\ InSession(pc'))
            => expanded_script_path' = expanded_script_path]_vars
    /\ [][(pc = "attempt" /\ pc' = "read")
            => (expanded_script_path' = ResolvedPath /\ frames' = <<>>
                  /\ lastRead' = "none")]_vars

C17_Witness ==
    /\ pc = "action"
    /\ Len(invoked) = 2
    /\ invoked[1].path = invoked[2].path
    /\ invoked[2].path = ResolvedPath
    /\ lastOutcome = "nonzero"
    /\ \E i \in 1..Len(frames) : IsUndecodableFrame(frames[i])

(* C18 *)

\* C18: when the unread bytes are one complete LayerChange object without
\* a newline and the peer has closed, the read takes them as a frame and
\* invokes the action once with the object's new value, without returning;
\* the read after it, finding nothing, returns the connection-terminated
\* error and invokes nothing.
C18_UnterminatedLayerChangeAtClose ==
    /\ []((pc = "read" /\ peerClosed /\ ~HasNL(wire) /\ IsLayerChangeFrame(wire))
            => ENABLED LoopIteration)
    /\ [][(StreamRead /\ peerClosed /\ ~HasNL(wire) /\ IsLayerChangeFrame(wire))
            => (/\ frames' = Append(frames, wire)
                /\ invoked' = Append(invoked,
                      [path |-> expanded_script_path, arg |-> NewOf(wire)])
                /\ running' = 1
                /\ pc' = "action"
                /\ result' = "none"
                /\ wire' = <<>>
                /\ peerClosed')]_vars
    /\ [][(StreamRead /\ peerClosed /\ wire = <<>>)
            => (/\ invoked' = invoked
                /\ lastRead' = "eof"
                /\ result' = "ConnectionReset"
                /\ pc' = "sleep_lost")]_vars

C18_Witness ==
    /\ pc = "sleep_lost"
    /\ result = "ConnectionReset"
    /\ lastRead = "eof"
    /\ frames = << <<Obj("LayerChange", "nav")>> >>
    /\ Args(invoked) = <<"nav">>

(* C19 *)

RECURSIVE Flat(_)
Flat(fs) == IF fs = <<>> THEN <<>> ELSE Head(fs) \o Flat(Tail(fs))

\* a step of the client, not of the peer
ClientMoved == pc' # pc \/ frames' # frames
\* an action of this session is running or has run
ActionSeen == pc = "action" \/ lastOutcome # "none"

\* C19: what the peer sends or closes while an action runs is neither lost
\* nor reordered: the return of Command::output() leaves the unread bytes
\* and the close as they are; every later read takes the next line off the
\* front of the unread bytes; and, socket errors apart, the session ends only
\* when a read has taken all that was unread, and with the
\* connection-terminated error only when the peer has closed and nothing
\* was left unread.
C19_NothingLostAcrossAction ==
    [][/\ (pc = "action" /\ pc' # "action")
           => (pc' = "read" /\ wire' = wire /\ peerClosed' = peerClosed
                 /\ frames' = frames)
       /\ (ActionSeen /\ ClientMoved /\ InSession(pc) /\ InSession(pc'))
           => (Flat(frames') \o wire' = Flat(frames) \o wire
                 /\ IsPrefix(frames, frames')
                 /\ peerClosed' = peerClosed)
       /\ (ActionSeen /\ InSession(pc) /\ ~InSession(pc') /\ result' # "IoError")
           => (/\ result' \in ErrorReturns
               /\ Len(wire) = LineLen(wire)
               /\ (result' = "ConnectionReset") => (wire = <<>> /\ peerClosed))]_vars

====
